---- MODULE Spec2Model ----
(***************************************************************************)
(* Model of the 8259 PIC driver of src/src/lib.rs: initialize,             *)
(* handles_interrupt and notify_end_of_interrupt, run against two 8259     *)
(* chips that sit behind the I/O ports 0x20/0x21 and 0xA0/0xA1.            *)
(*                                                                         *)
(* Every port operation of the source is one step.  The program counter    *)
(* of a call is the number of the source line that is executed next;       *)
(* 0 means "not inside a call".  A call that reaches its closing brace     *)
(* returns in a step of its own, which discards its locals.                *)
(***************************************************************************)
EXTENDS Integers, Sequences, FiniteSets, TLC

VARIABLES
    chips,        \* the two physical chips (shared hardware state)
    pc,           \* per context: source line executed next, 0 = no call active
    call,         \* per context: the call that is running, "none" outside
    arg,          \* per context: interrupt_id of the call
    ret,          \* per context: result of the last handles_interrupt
    saved_mask1,  \* per context: local of initialize (line 54)
    saved_mask2,  \* per context: local of initialize (line 55)
    trace,        \* port operations recorded since the running call began
    entry,        \* the chips as they were when the running call began
    initialized,  \* some run of initialize has completed
    just_initialized,  \* the call that returned last was initialize
    recording,    \* the port layer records the operations in trace
    overlapped    \* some call began while another call was under way

vars == <<chips, pc, call, arg, ret, saved_mask1, saved_mask2, trace, entry,
          initialized, just_initialized, recording, overlapped>>

-----------------------------------------------------------------------------
(* Bounds *)

\* number of sample mask bytes the chips may hold before initialize
MaxMaskSamples == 3

-----------------------------------------------------------------------------
(* The 8-bit domain and the constants of the source *)

U8 == 0..255

PIC_1_OFFSET == 32            \* 0x20
PIC_2_OFFSET == 40            \* 0x28
TIMER_INTERRUPT == PIC_1_OFFSET
CMD_INIT == 17                \* 0x11
CMD_END_OF_INTERRUPT == 32    \* 0x20
MODE_8086 == 1                \* 0x01
WAIT_PORT == 128              \* 0x80

\* sample mask bytes: 0x00, 0xFF, 0xFE, 0xFD, ...
Masks == { (i * 255) % 256 : i \in 0..(MaxMaskSamples - 1) }

\* execution contexts that call the driver: Main is the boot code, Irq a
\* context that can run between any two port operations of Main
Main == "main"
Irq == "irq"
Contexts == {Main, Irq}

\* u8 addition as the release build computes it
U8Add(a, b) == (a + b) % 256

\* variant: the secondary mapped to the top of the vector space (0xF8)
create_pic_structs_mut_top_offset ==
    [ pic_1 |-> [offset |-> PIC_1_OFFSET, command |-> 32,  data |-> 33],
      pic_2 |-> [offset |-> 248,          command |-> 160, data |-> 161] ]

\* create_pic_structs(): the two stateless handles
create_pic_structs ==
    [ pic_1 |-> [offset |-> PIC_1_OFFSET, command |-> 32,  data |-> 33],
      pic_2 |-> [offset |-> PIC_2_OFFSET, command |-> 160, data |-> 161] ]

pic_1 == create_pic_structs.pic_1
pic_2 == create_pic_structs.pic_2

\* variant: a range of seven vectors instead of eight
Pic_handles_interrupt_mut_seven(self, interrupt_id) ==
    self.offset <= interrupt_id /\ interrupt_id < U8Add(self.offset, 7)

\* variant: the upper end of the range taken inclusive
Pic_handles_interrupt_mut_inclusive(self, interrupt_id) ==
    self.offset <= interrupt_id /\ interrupt_id <= U8Add(self.offset, 8)

\* Pic::handles_interrupt, lines 145-147
Pic_handles_interrupt(self, interrupt_id) ==
    self.offset <= interrupt_id /\ interrupt_id < U8Add(self.offset, 8)

\* handles_interrupt
handles_interrupt(interrupt_id) ==
    Pic_handles_interrupt(pic_1, interrupt_id)
        \/ Pic_handles_interrupt(pic_2, interrupt_id)

-----------------------------------------------------------------------------
(* The hardware: two 8259A chips behind the ports.                         *)
(*                                                                         *)
(* icw = 0: the chip is operating; a data-port write sets the mask (OCW1). *)
(* icw = 2, 3, 4: the chip is inside the initialization handshake and the  *)
(* next data-port write is taken as ICW2 (vector offset), ICW3 (cascade    *)
(* byte) or ICW4 (mode byte).  A command byte with bit 4 set is ICW1: it   *)
(* starts the handshake, latches whether ICW3 and ICW4 follow (bit 1 =     *)
(* single, bit 0 = ICW4 needed) and clears the mask register.              *)

Bit(val, n) == (val \div (2 ^ n)) % 2

ChipIds == {"pic_1", "pic_2"}

\* the chip that decodes a port, "none" for any other port
ChipOfPort(port) ==
    CASE port \in {pic_1.command, pic_1.data} -> "pic_1"
      [] port \in {pic_2.command, pic_2.data} -> "pic_2"
      [] OTHER -> "none"

IsCommandPort(port) == port \in {pic_1.command, pic_2.command}

\* the handshake word expected after ICW2
AfterICW2(chip) == IF chip.sngl THEN (IF chip.ic4 THEN 4 ELSE 0) ELSE 3
\* the handshake word expected after ICW3
AfterICW3(chip) == IF chip.ic4 THEN 4 ELSE 0

\* one chip taking a byte on its command port
ChipCommand(chip, val) ==
    IF Bit(val, 4) = 1
    THEN [chip EXCEPT !.icw = 2, !.ic4 = (Bit(val, 0) = 1),
                      !.sngl = (Bit(val, 1) = 1), !.mask = 0]
    ELSE chip   \* OCW2/OCW3 (end of interrupt, ...): configuration untouched

\* one chip taking a byte on its data port
ChipData(chip, val) ==
    CASE chip.icw = 2 -> [chip EXCEPT !.offset = val - (val % 8),
                                      !.icw = AfterICW2(chip)]
      [] chip.icw = 3 -> [chip EXCEPT !.cascade = val, !.icw = AfterICW3(chip)]
      [] chip.icw = 4 -> [chip EXCEPT !.mode = val, !.icw = 0]
      [] OTHER        -> [chip EXCEPT !.mask = val]

\* Port::write: the chips after `val` was written to `port`
PortWrite(cs, port, val) ==
    LET id == ChipOfPort(port) IN
    IF id = "none" THEN cs
    ELSE [cs EXCEPT ![id] = IF IsCommandPort(port)
                            THEN ChipCommand(cs[id], val)
                            ELSE ChipData(cs[id], val)]

\* Port::read of a data port: the mask register
PortRead(cs, port) == cs[ChipOfPort(port)].mask

\* trace entries
R(port, val) == [op |-> "read",  port |-> port, val |-> val]
W(port, val) == [op |-> "write", port |-> port, val |-> val]

\* chip configurations initialize may find: BIOS defaults or a reset chip
BiosChip(id, m) ==
    [icw |-> 0, ic4 |-> TRUE, sngl |-> FALSE,
     offset |-> IF id = "pic_1" THEN 8 ELSE 112,
     cascade |-> IF id = "pic_1" THEN 4 ELSE 2,
     mode |-> 1, mask |-> m]

ResetChip(id, m) ==
    [icw |-> 0, ic4 |-> FALSE, sngl |-> FALSE,
     offset |-> 0, cascade |-> 0, mode |-> 0, mask |-> m]

\* the machine before initialize: both chips as the BIOS left them, or both
\* never programmed, each with any mask
StartChips ==
    { [id \in ChipIds |-> BiosChip(id, m[id])] : m \in [ChipIds -> Masks] }
        \cup { [id \in ChipIds |-> ResetChip(id, m[id])] : m \in [ChipIds -> Masks] }

\* the software-visible configuration of a chip
Config(chip) ==
    [icw |-> chip.icw, offset |-> chip.offset, cascade |-> chip.cascade,
     mode |-> chip.mode, mask |-> chip.mask]

Configs(cs) == [id \in ChipIds |-> Config(cs[id])]

-----------------------------------------------------------------------------
(* Initial state *)

InitState ==
    /\ chips \in StartChips
    /\ pc = [c \in Contexts |-> 0]
    /\ call = [c \in Contexts |-> "none"]
    /\ arg = [c \in Contexts |-> 0]
    /\ ret = [c \in Contexts |-> FALSE]
    /\ saved_mask1 = [c \in Contexts |-> 0]
    /\ saved_mask2 = [c \in Contexts |-> 0]
    /\ trace = <<>>
    /\ entry = chips
    /\ initialized = FALSE
    /\ just_initialized = FALSE
    /\ overlapped = FALSE

\* the driver run against a recording port layer
Init == InitState /\ recording = TRUE

\* what the port layer does with an operation e: keep it if it records
Record(t, e) == IF recording THEN Append(t, e) ELSE t

\* no context is inside a call (the sequential discipline of the driver)
AllIdle == \A c \in Contexts : pc[c] = 0

\* what every call does on entry: the argument is bound, recording starts
Enter(c, name, id, line) ==
    /\ AllIdle
    /\ pc' = [pc EXCEPT ![c] = line]
    /\ call' = [call EXCEPT ![c] = name]
    /\ arg' = [arg EXCEPT ![c] = id]
    /\ trace' = <<>>
    /\ entry' = chips
    /\ UNCHANGED <<chips, ret, saved_mask1, saved_mask2, recording, overlapped>>

\* the closing braces of initialize, handles_interrupt, notify_end_of_interrupt
ReturnLines == {85, 91, 104}

\* a call is complete: its last statement ran and it has not returned yet
Done(c, name) == call[c] = name /\ pc[c] \in ReturnLines

\* the return to the caller: the locals and the recording are discarded
return(c) ==
    /\ pc[c] \in ReturnLines
    /\ pc' = [pc EXCEPT ![c] = 0]
    /\ arg' = [arg EXCEPT ![c] = 0]
    /\ ret' = [ret EXCEPT ![c] = FALSE]
    /\ saved_mask1' = [saved_mask1 EXCEPT ![c] = 0]
    /\ saved_mask2' = [saved_mask2 EXCEPT ![c] = 0]
    /\ trace' = <<>>
    /\ entry' = chips
    /\ call' = [call EXCEPT ![c] = "none"]
    /\ just_initialized' = (call[c] = "initialize")
    /\ UNCHANGED <<chips, initialized, recording, overlapped>>

\* a port write at line `line` of context c, continuing at line `next`
WriteStep(c, line, next, port, val) ==
    /\ pc[c] = line
    /\ chips' = PortWrite(chips, port, val)
    /\ trace' = Record(trace, W(port, val))
    /\ pc' = [pc EXCEPT ![c] = next]

-----------------------------------------------------------------------------
(* initialize, lines 38-85 *)

initialize_call(c) ==
    /\ Enter(c, "initialize", 0, 54)
    /\ UNCHANGED <<initialized, just_initialized,
                   recording, overlapped>>

\* line 54: let saved_mask1 = pic_1.data.read();
initialize_L54(c) ==
    /\ pc[c] = 54
    /\ saved_mask1' = [saved_mask1 EXCEPT ![c] = PortRead(chips, pic_1.data)]
    /\ trace' = Record(trace, R(pic_1.data, PortRead(chips, pic_1.data)))
    /\ pc' = [pc EXCEPT ![c] = 55]
    /\ UNCHANGED <<chips, call, arg, ret, saved_mask2, entry, initialized,
                   just_initialized,
                   recording, overlapped>>

\* line 55: let saved_mask2 = pic_2.data.read();
initialize_L55(c) ==
    /\ pc[c] = 55
    /\ saved_mask2' = [saved_mask2 EXCEPT ![c] = PortRead(chips, pic_2.data)]
    /\ trace' = Record(trace, R(pic_2.data, PortRead(chips, pic_2.data)))
    /\ pc' = [pc EXCEPT ![c] = 59]
    /\ UNCHANGED <<chips, call, arg, ret, saved_mask1, entry, initialized,
                   just_initialized,
                   recording, overlapped>>

InitFrame == UNCHANGED <<call, arg, ret, saved_mask1, saved_mask2, entry,
                         initialized, just_initialized,
                   recording, overlapped>>

\* line 59: pic_1.command.write(CMD_INIT);
initialize_L59(c) ==
    WriteStep(c, 59, 60, pic_1.command, CMD_INIT) /\ InitFrame

\* variant of line 61: the secondary is never told to start the handshake
initialize_L61_mut_omitted(c) ==
    /\ pc[c] = 61
    /\ pc' = [pc EXCEPT ![c] = 62]
    /\ UNCHANGED <<chips, trace>>
    /\ InitFrame

\* line 61: pic_2.command.write(CMD_INIT);
initialize_L61(c) ==
    WriteStep(c, 61, 62, pic_2.command, CMD_INIT) /\ InitFrame

\* variant of line 65: the secondary's offset sent to the primary
initialize_L65_mut_pic2_offset(c) ==
    WriteStep(c, 65, 66, pic_1.data, pic_2.offset) /\ InitFrame

\* line 65: pic_1.data.write(pic_1.offset);
initialize_L65(c) ==
    WriteStep(c, 65, 66, pic_1.data, pic_1.offset) /\ InitFrame

\* variant of line 67: the primary's offset sent to the secondary
initialize_L67_mut_pic1_offset(c) ==
    WriteStep(c, 67, 68, pic_2.data, pic_1.offset) /\ InitFrame

\* line 67: pic_2.data.write(pic_2.offset);
initialize_L67(c) ==
    WriteStep(c, 67, 68, pic_2.data, pic_2.offset) /\ InitFrame

\* line 71: pic_1.data.write(4);
initialize_L71(c) ==
    WriteStep(c, 71, 72, pic_1.data, 4) /\ InitFrame

\* variant of line 73: the secondary given the primary's cascade byte
initialize_L73_mut_master_byte(c) ==
    WriteStep(c, 73, 74, pic_2.data, 4) /\ InitFrame

\* line 73: pic_2.data.write(2);
initialize_L73(c) ==
    WriteStep(c, 73, 74, pic_2.data, 2) /\ InitFrame

\* line 77: pic_1.data.write(MODE_8086);
initialize_L77(c) ==
    WriteStep(c, 77, 78, pic_1.data, MODE_8086) /\ InitFrame

\* variant of line 79: the secondary's mode byte left out
initialize_L79_mut_omitted(c) ==
    /\ pc[c] = 79
    /\ pc' = [pc EXCEPT ![c] = 80]
    /\ UNCHANGED <<chips, trace>>
    /\ InitFrame

\* line 79: pic_2.data.write(MODE_8086);
initialize_L79(c) ==
    WriteStep(c, 79, 80, pic_2.data, MODE_8086) /\ InitFrame

\* the lines that call wait(), and the statement each is followed by
WaitLines == {60, 62, 66, 68, 72, 74, 78, 80}

AfterWait(line) ==
    CASE line = 60 -> 61 [] line = 62 -> 65 [] line = 66 -> 67
      [] line = 68 -> 71 [] line = 72 -> 73 [] line = 74 -> 77
      [] line = 78 -> 79 [] line = 80 -> 83

\* variant of the wait closure: the delay byte sent to a controller port
initialize_wait_mut_data_port(c) ==
    /\ pc[c] \in WaitLines
    /\ WriteStep(c, pc[c], AfterWait(pc[c]), pic_1.data, 0)
    /\ InitFrame

\* variant of the wait closure: no delay after the last handshake write
initialize_wait_mut_not_after_mode(c) ==
    \/ /\ pc[c] \in WaitLines \ {80}
       /\ WriteStep(c, pc[c], AfterWait(pc[c]), WAIT_PORT, 0)
       /\ InitFrame
    \/ /\ pc[c] = 80
       /\ pc' = [pc EXCEPT ![c] = 83]
       /\ UNCHANGED <<chips, trace>>
       /\ InitFrame

\* lines 48-49: let mut wait = || wait_port.write(0);
initialize_wait(c) ==
    /\ pc[c] \in WaitLines
    /\ WriteStep(c, pc[c], AfterWait(pc[c]), WAIT_PORT, 0)
    /\ InitFrame

\* variant of line 83: the primary's saved mask written to the secondary
initialize_L83_mut_secondary_port(c) ==
    WriteStep(c, 83, 84, pic_2.data, saved_mask1[c]) /\ InitFrame

\* variant of line 83: the mask register read again just before the restore
initialize_L83_mut_rereads(c) ==
    /\ pc[c] = 83
    /\ chips' = PortWrite(chips, pic_1.data, PortRead(chips, pic_1.data))
    /\ trace' = Record(Record(trace, R(pic_1.data, PortRead(chips, pic_1.data))),
                       W(pic_1.data, PortRead(chips, pic_1.data)))
    /\ pc' = [pc EXCEPT ![c] = 84]
    /\ InitFrame

\* variant of line 83: the secondary's saved mask restored to the primary
initialize_L83_mut_other_mask(c) ==
    WriteStep(c, 83, 84, pic_1.data, saved_mask2[c]) /\ InitFrame

\* line 83: pic_1.data.write(saved_mask1);
initialize_L83(c) ==
    WriteStep(c, 83, 84, pic_1.data, saved_mask1[c]) /\ InitFrame

\* line 84: pic_2.data.write(saved_mask2);
initialize_L84(c) ==
    /\ WriteStep(c, 84, 85, pic_2.data, saved_mask2[c])
    /\ initialized' = TRUE
    /\ UNCHANGED <<call, arg, ret, saved_mask1, saved_mask2, entry, just_initialized,
                   recording, overlapped>>

\* the statements of initialize
initialize_body(c) ==
    \/ initialize_L54(c) \/ initialize_L55(c)
    \/ initialize_L59(c) \/ initialize_L61(c)
    \/ initialize_L65(c) \/ initialize_L67(c)
    \/ initialize_L71(c) \/ initialize_L73(c)
    \/ initialize_L77(c) \/ initialize_L79(c)
    \/ initialize_wait(c)
    \/ initialize_L83(c) \/ initialize_L84(c)

initialize(c) == initialize_call(c) \/ initialize_body(c)

-----------------------------------------------------------------------------
(* handles_interrupt, lines 88-91 *)

handles_interrupt_call(c) ==
    \E interrupt_id \in U8 :
        /\ Enter(c, "handles_interrupt", interrupt_id, 90)
        /\ UNCHANGED <<initialized, just_initialized,
                   recording, overlapped>>

\* variant of line 90: the query also consults the chips' mask registers
handles_interrupt_L90_mut_reads_mask(c) ==
    /\ pc[c] = 90
    /\ ret' = [ret EXCEPT ![c] = handles_interrupt(arg[c])
                                   /\ PortRead(chips, pic_1.data) # 255]
    /\ trace' = Record(trace, R(pic_1.data, PortRead(chips, pic_1.data)))
    /\ pc' = [pc EXCEPT ![c] = 91]
    /\ UNCHANGED <<chips, call, arg, saved_mask1, saved_mask2, entry,
                   initialized, just_initialized,
                   recording, overlapped>>

\* line 90: pic_1.handles_interrupt(id) || pic_2.handles_interrupt(id)
handles_interrupt_L90(c) ==
    /\ pc[c] = 90
    /\ ret' = [ret EXCEPT ![c] = handles_interrupt(arg[c])]
    /\ pc' = [pc EXCEPT ![c] = 91]
    /\ UNCHANGED <<chips, call, arg, saved_mask1, saved_mask2, trace, entry,
                   initialized, just_initialized,
                   recording, overlapped>>

-----------------------------------------------------------------------------
(* notify_end_of_interrupt, lines 96-104 *)

NotifyFrame == UNCHANGED <<call, arg, ret, saved_mask1, saved_mask2, entry,
                           initialized, just_initialized,
                   recording, overlapped>>

notify_call(c) ==
    \E interrupt_id \in U8 :
        /\ Enter(c, "notify_end_of_interrupt", interrupt_id, 98)
        /\ UNCHANGED <<initialized, just_initialized,
                   recording, overlapped>>

\* variant of line 98: the outer ownership test left out
notify_L98_mut_unguarded(c) ==
    /\ pc[c] = 98
    /\ pc' = [pc EXCEPT ![c] = 99]
    /\ UNCHANGED <<chips, trace, call, arg, ret, saved_mask1, saved_mask2,
                   entry, initialized, just_initialized,
                   recording, overlapped>>

\* line 98: if pic_1.handles_interrupt(id) || pic_2.handles_interrupt(id)
notify_L98(c) ==
    /\ pc[c] = 98
    /\ \/ /\ Pic_handles_interrupt(pic_1, arg[c])
             \/ Pic_handles_interrupt(pic_2, arg[c])
          /\ pc' = [pc EXCEPT ![c] = 99]
       \/ /\ ~ (Pic_handles_interrupt(pic_1, arg[c])
                  \/ Pic_handles_interrupt(pic_2, arg[c]))
          /\ pc' = [pc EXCEPT ![c] = 104]
    /\ UNCHANGED <<chips, trace>>
    /\ NotifyFrame

\* variant of line 99: the secondary acknowledged for every handled vector
notify_L99_mut_always_secondary(c) ==
    /\ pc[c] = 99
    /\ pc' = [pc EXCEPT ![c] = 100]
    /\ UNCHANGED <<chips, trace, call, arg, ret, saved_mask1, saved_mask2,
                   entry, initialized, just_initialized,
                   recording, overlapped>>

\* line 99: if pic_2.handles_interrupt(id)
notify_L99(c) ==
    /\ pc[c] = 99
    /\ \/ /\ Pic_handles_interrupt(pic_2, arg[c])
          /\ pc' = [pc EXCEPT ![c] = 100]
       \/ /\ ~ Pic_handles_interrupt(pic_2, arg[c])
          /\ pc' = [pc EXCEPT ![c] = 102]
    /\ UNCHANGED <<chips, trace>>
    /\ NotifyFrame

\* variant: the end-of-interrupt byte sent to the data port
Pic_end_of_interrupt_mut_data_port(self, c, line, next) ==
    WriteStep(c, line, next, self.data, CMD_END_OF_INTERRUPT)

\* Pic::end_of_interrupt, lines 151-153
Pic_end_of_interrupt(self, c, line, next) ==
    WriteStep(c, line, next, self.command, CMD_END_OF_INTERRUPT)

\* variant of line 100: the acknowledgment sent to the primary instead
notify_L100_mut_primary(c) ==
    /\ WriteStep(c, 100, 102, pic_1.command, CMD_END_OF_INTERRUPT)
    /\ UNCHANGED <<call, arg, ret, saved_mask1, saved_mask2, entry,
                   initialized, just_initialized,
                   recording, overlapped>>

\* line 100: pic_2.end_of_interrupt();
notify_L100(c) ==
    Pic_end_of_interrupt(pic_2, c, 100, 102) /\ NotifyFrame

\* variant of line 102: the primary acknowledged only for its own vectors
notify_L102_mut_only_own(c) ==
    /\ \/ /\ Pic_handles_interrupt(pic_1, arg[c])
          /\ Pic_end_of_interrupt(pic_1, c, 102, 104)
       \/ /\ ~ Pic_handles_interrupt(pic_1, arg[c])
          /\ pc[c] = 102
          /\ pc' = [pc EXCEPT ![c] = 104]
          /\ UNCHANGED <<chips, trace>>
    /\ NotifyFrame

\* line 102: pic_1.end_of_interrupt();
notify_L102(c) ==
    Pic_end_of_interrupt(pic_1, c, 102, 104) /\ NotifyFrame

\* the statements of notify_end_of_interrupt
notify_body(c) ==
    \/ notify_L98(c) \/ notify_L99(c)
    \/ notify_L100(c) \/ notify_L102(c)

notify_end_of_interrupt(c) == notify_call(c) \/ notify_body(c)

-----------------------------------------------------------------------------
(* The driver used as documented: one context, one call at a time *)

Next ==
    \/ initialize(Main)
    \/ handles_interrupt_call(Main)
    \/ handles_interrupt_L90(Main)
    \/ notify_end_of_interrupt(Main)
    \/ return(Main)

Spec == Init /\ [][Next]_vars

-----------------------------------------------------------------------------
(* The driver used against its documentation: nothing in the source keeps  *)
(* a second context from calling while a call is under way.  Each context  *)
(* makes one call; the port operations of the two calls interleave in any  *)
(* order.  The port layer does not record here.                            *)

InitConc ==
    /\ InitState
    /\ \A id \in ChipIds : chips[id].mode = 1    \* as the BIOS left them
    /\ recording = FALSE

\* context c is between the first and the last statement of a call
Underway(c) == pc[c] \notin ({0} \cup ReturnLines)

\* entry into a function with no regard to what other contexts are doing
EnterUnguarded(c, name, id, line) ==
    /\ pc[c] = 0 /\ call[c] = "none"
    /\ pc' = [pc EXCEPT ![c] = line]
    /\ call' = [call EXCEPT ![c] = name]
    /\ arg' = [arg EXCEPT ![c] = id]
    /\ overlapped' = (overlapped \/ \E d \in Contexts \ {c} : Underway(d))
    /\ UNCHANGED <<chips, ret, saved_mask1, saved_mask2, trace, entry,
                   initialized, just_initialized, recording>>

\* the vectors the second context acknowledges: one of each chip, one of none
ConcVectors == {TIMER_INTERRUPT, 44, 48}

conc_initialize_call(c) == EnterUnguarded(c, "initialize", 0, 54)

conc_notify_call(c) ==
    \E interrupt_id \in ConcVectors :
        EnterUnguarded(c, "notify_end_of_interrupt", interrupt_id, 98)

NextConc ==
    \/ \E c \in Contexts :
          \/ conc_initialize_call(c)
          \/ initialize_body(c)
          \/ notify_body(c)
    \/ conc_notify_call(Irq)

SpecConc == InitConc /\ [][NextConc]_vars

-----------------------------------------------------------------------------
(* Properties.  Ports and bytes are written as the numbers the hardware    *)
(* sees: 32 = 0x20, 33 = 0x21, 160 = 0xA0, 161 = 0xA1, 128 = 0x80,         *)
(* 17 = 0x11, 40 = 0x28, 48 = 0x30.                                        *)

IsPrefix(s, t) == Len(s) <= Len(t) /\ SubSeq(t, 1, Len(s)) = s

IsWrite(e) == e.op = "write"
IsDelay(e) == e.op = "write" /\ e.port = 128

\* the writes of a trace, in order
Writes(t) == SelectSeq(t, IsWrite)

IsChipWrite(e) == e.op = "write" /\ e.port # 128
\* the writes of a trace that are not delay writes, in order
ChipWrites(t) == SelectSeq(t, IsChipWrite)

\* the first n elements of a sequence (all of it when it is shorter)
Take(s, n) == SubSeq(s, 1, IF Len(s) < n THEN Len(s) ELSE n)

\* C1: for every 8-bit vector v, handles_interrupt(v) returns true iff
\* 0x20 <= v < 0x30, and false for every other v.
C1_OwnershipRange ==
    \A c \in Contexts :
        Done(c, "handles_interrupt")
            => (ret[c] <=> (32 <= arg[c] /\ arg[c] < 48))

C1_Witness ==
    \E c \in Contexts :
        Done(c, "handles_interrupt") /\ arg[c] = 47 /\ ret[c] = TRUE

\* C2: for every vector in [0x28, 0x30) one call of notify_end_of_interrupt
\* writes exactly twice: 0x20 to port 0xA0 first, then 0x20 to port 0x20; at
\* no point of the call has the primary been written before the secondary.
C2_SecondaryThenPrimary ==
    \A c \in Contexts :
        (call[c] = "notify_end_of_interrupt" /\ arg[c] \in 40..47)
            => /\ IsPrefix(trace, << W(160, 32), W(32, 32) >>)
               /\ pc[c] = 104 => trace = << W(160, 32), W(32, 32) >>

C2_Witness ==
    \E c \in Contexts :
        /\ Done(c, "notify_end_of_interrupt") /\ arg[c] = 44
        /\ Len(trace) = 2

\* C3: for every vector in [0x20, 0x28) one call of notify_end_of_interrupt
\* writes exactly once, 0x20 to port 0x20, and never to a port of the secondary.
C3_PrimaryOnly ==
    \A c \in Contexts :
        (call[c] = "notify_end_of_interrupt" /\ arg[c] \in 32..39)
            => /\ IsPrefix(trace, << W(32, 32) >>)
               /\ pc[c] = 104 => trace = << W(32, 32) >>

C3_Witness ==
    \E c \in Contexts :
        /\ Done(c, "notify_end_of_interrupt") /\ arg[c] = TIMER_INTERRUPT
        /\ Len(trace) = 1

\* C4: for every vector outside [0x20, 0x30) notify_end_of_interrupt does no
\* port read and no port write, and both chips stay as they were.
C4_UnownedNoPortAccess ==
    \A c \in Contexts :
        (call[c] = "notify_end_of_interrupt" /\ arg[c] \notin 32..47)
            => trace = <<>> /\ chips = entry

C4_Witness ==
    \E c \in Contexts :
        Done(c, "notify_end_of_interrupt") /\ arg[c] = 48 /\ initialized

\* the eight handshake writes of initialize, in order
HandshakeWrites ==
    << W(32, 17), W(160, 17), W(33, 32), W(161, 40),
       W(33, 4),  W(161, 2),  W(33, 1),  W(161, 1) >>

\* C5: leaving the delay writes out, one run of initialize issues the eight
\* handshake writes (0x20,0x11) (0xA0,0x11) (0x21,0x20) (0xA1,0x28) (0x21,4)
\* (0xA1,2) (0x21,1) (0xA1,1), each once and in this order, followed only by
\* the two mask-restore writes.
C5_HandshakeOrder ==
    \A c \in Contexts :
        call[c] = "initialize"
            => /\ IsPrefix(Take(ChipWrites(trace), 8), HandshakeWrites)
               /\ pc[c] = 85 => /\ Take(ChipWrites(trace), 8) = HandshakeWrites
                                /\ Len(ChipWrites(trace)) = 10

C5_Witness ==
    \E c \in Contexts :
        Done(c, "initialize") /\ Take(ChipWrites(trace), 8) = HandshakeWrites

\* C6: whatever mask bytes (m1, m2) the reads of ports 0x21 and 0xA1 return at
\* the start of initialize, its last two port writes are (0x21, m1) and then
\* (0xA1, m2).
C6_MasksRestored ==
    \A c \in Contexts :
        Done(c, "initialize")
            => /\ Len(trace) >= 4
               /\ trace[1] = R(33, entry["pic_1"].mask)
               /\ trace[2] = R(161, entry["pic_2"].mask)
               /\ trace[Len(trace) - 1] = W(33, trace[1].val)
               /\ trace[Len(trace)] = W(161, trace[2].val)

C6_Witness ==
    \E c \in Contexts :
        /\ Done(c, "initialize")
        /\ entry["pic_1"].mask = 255 /\ entry["pic_2"].mask = 0
        /\ trace[Len(trace) - 1] = W(33, 255)
        /\ trace[Len(trace)] = W(161, 0)

\* positions, in the write trace w of a completed initialize, of the two
\* mask-restore writes (its last two writes) and of the handshake writes
\* (every other write that is not a delay write)
RestorePos(w) == {Len(w) - 1, Len(w)}
HandshakePos(w) == {i \in 1..Len(w) : ~ IsDelay(w[i])} \ RestorePos(w)

DelayBefore(w, i) == i > 1 /\ IsDelay(w[i - 1])
DelayAfter(w, i) == i < Len(w) /\ IsDelay(w[i + 1])

\* C7 as stated: in the write trace of one run of initialize each of the 8
\* handshake writes is immediately preceded by a delay write to port 0x80 and
\* neither mask-restore write is immediately preceded by one.
C7_DelayPrecedes_Original ==
    \A c \in Contexts :
        Done(c, "initialize")
            => LET w == Writes(trace) IN
               /\ \A i \in HandshakePos(w) : DelayBefore(w, i)
               /\ \A i \in RestorePos(w) : ~ DelayBefore(w, i)

\* C7 (amended): in the write trace of one run of initialize each of the 8
\* handshake writes is immediately followed by a delay write to port 0x80;
\* so handshake writes 2..8 and the first mask-restore write are immediately
\* preceded by one, the first handshake write is preceded by no write at all,
\* the second mask-restore write is immediately preceded by the first, and no
\* delay write follows a mask-restore write.
C7_DelayFollows ==
    \A c \in Contexts :
        Done(c, "initialize")
            => LET w == Writes(trace) IN
               /\ Cardinality(HandshakePos(w)) = 8
               /\ \A i \in HandshakePos(w) : DelayAfter(w, i)
               /\ \A i \in HandshakePos(w) : DelayBefore(w, i) <=> i > 1
               /\ 1 \in HandshakePos(w)
               /\ DelayBefore(w, Len(w) - 1)
               /\ ~ DelayBefore(w, Len(w))
               /\ \A i \in RestorePos(w) : ~ DelayAfter(w, i)

C7_Witness ==
    \E c \in Contexts :
        /\ Done(c, "initialize")
        /\ Len(Writes(trace)) = 18
        /\ IsDelay(Writes(trace)[16])

\* a step in which context c executes one of the wait() calls
WaitStep(c) == pc[c] \in WaitLines /\ pc'[c] # pc[c]

Elements(q) == {q[i] : i \in 1..Len(q)}

\* C8: in one run of initialize there is a delay write between every two
\* consecutive handshake writes; every delay write goes to port 0x80, never
\* to a port of a controller, and leaves the state of both controllers as it
\* was.
C8_DelayBetweenAndHarmless ==
    /\ [](\A c \in Contexts :
            call[c] = "initialize"
                => LET w == Writes(trace) IN
                   \A i \in 1..Len(w) : \A j \in 1..Len(w) :
                       (i < j /\ w[i] \in Elements(HandshakeWrites)
                              /\ w[j] \in Elements(HandshakeWrites))
                           => \E k \in (i + 1)..(j - 1) : IsDelay(w[k]))
    /\ [][\A c \in Contexts :
            WaitStep(c) => /\ trace' = Append(trace, W(128, 0))
                           /\ chips' = chips]_vars

C8_Witness ==
    \E c \in Contexts :
        /\ Done(c, "initialize")
        /\ Cardinality({i \in 1..Len(trace) : IsDelay(trace[i])}) = 8

\* the configuration initialize is to leave, given the masks it found
OperatingConfig(m1, m2) ==
    [id \in ChipIds |->
        IF id = "pic_1"
        THEN [icw |-> 0, offset |-> 32, cascade |-> 4, mode |-> 1, mask |-> m1]
        ELSE [icw |-> 0, offset |-> 40, cascade |-> 2, mode |-> 1, mask |-> m2]]

\* C9: a complete run of initialize that starts with both chips outside the
\* handshake and masks (m1, m2) ends with both chips outside the handshake,
\* primary offset 0x20 / cascade 4 / mode 1, secondary offset 0x28 / cascade 2
\* / mode 1, and masks (m1, m2).
C9_EndConfiguration ==
    \A c \in Contexts :
        (Done(c, "initialize") /\ \A id \in ChipIds : entry[id].icw = 0)
            => Configs(chips)
                 = OperatingConfig(entry["pic_1"].mask, entry["pic_2"].mask)

C9_Witness ==
    \E c \in Contexts :
        /\ Done(c, "initialize")
        /\ entry["pic_1"].icw = 0 /\ entry["pic_2"].icw = 0
        /\ entry["pic_1"].offset = 8 /\ entry["pic_2"].offset = 112
        /\ entry["pic_1"].mask = 0 /\ entry["pic_2"].mask = 255
        /\ Configs(chips) = OperatingConfig(0, 255)

\* C10: a run of initialize that directly follows a completed run of
\* initialize leaves both chips in the configuration (offsets, cascade bytes,
\* modes, masks) the first run left, for every initial pair of masks.
C10_Idempotent ==
    \A c \in Contexts :
        (Done(c, "initialize") /\ just_initialized)
            => Configs(chips) = Configs(entry)

C10_Witness ==
    \E c \in Contexts :
        /\ Done(c, "initialize") /\ just_initialized
        /\ chips["pic_1"].mask = 255 /\ chips["pic_2"].mask = 0

\* C11: handles_interrupt is pure: a call does no port read and no port
\* write and leaves both chips as they were, and its result is a function of
\* the vector alone, the same whatever the chips hold and whether or not
\* initialize has run.
C11_QueryIsPure ==
    \A c \in Contexts :
        call[c] = "handles_interrupt"
            => /\ trace = <<>>
               /\ chips = entry
               /\ pc[c] = 91 => (ret[c] <=> arg[c] \in 32..47)

\* a query for vector 8 on chips the BIOS left at offset 8 with every line
\* masked, before initialize ever ran
C11_Witness ==
    \E c \in Contexts :
        /\ Done(c, "handles_interrupt") /\ ~ initialized
        /\ chips["pic_1"].offset = 8 /\ chips["pic_1"].mask = 255
        /\ arg[c] = 8 /\ ret[c] = FALSE

\* both contexts have run their call to its closing brace
BothDone == \A c \in Contexts : pc[c] \in ReturnLines

\* the configuration every sequential execution of the calls produces
SequentialEnd ==
    OperatingConfig(entry["pic_1"].mask, entry["pic_2"].mask)

IsRead(e) == e.op = "read"

\* C13: one run of initialize reads a port exactly twice, port 0x21 and then
\* port 0xA1, both before its first port write; no read follows a write, so
\* the saved masks are the masks the chips held before the handshake.
C13_ReadsFirst ==
    \A c \in Contexts :
        call[c] = "initialize"
            => /\ \A i \in 1..Len(trace) : IsRead(trace[i]) <=> i <= 2
               /\ Len(trace) >= 1
                    => /\ trace[1] = R(33, entry["pic_1"].mask)
                       /\ saved_mask1[c] = entry["pic_1"].mask
               /\ Len(trace) >= 2
                    => /\ trace[2] = R(161, entry["pic_2"].mask)
                       /\ saved_mask2[c] = entry["pic_2"].mask
               /\ pc[c] = 85 => Len(SelectSeq(trace, IsRead)) = 2

C13_Witness ==
    \E c \in Contexts :
        /\ Done(c, "initialize")
        /\ trace[1] = R(33, 254) /\ trace[2] = R(161, 255)
        /\ IsWrite(trace[3])

\* a chip configuration with the mask left out of the comparison
Unmasked(cfg) == [cfg EXCEPT !.mask = 0]

\* C14 as stated: for every initial pair of masks, initialize stopped after
\* its first port write and before its last port write leaves the two chips
\* in a state that differs from the end configuration of a completed run.
C14_PartialDiffers_Original ==
    \A c \in Contexts :
        (call[c] = "initialize" /\ pc[c] \in 60..84)
            => Configs(chips) # SequentialEnd

\* C14 (amended): initialize stopped after its first port write and before
\* its eighth handshake write (line 79) leaves some chip inside the handshake,
\* so the state differs from the end configuration.  Stopped after that write
\* and before its last port write, both chips are out of the handshake with
\* their final offset, cascade byte and mode, and differ from the end
\* configuration at most in a mask not yet restored: there is no difference
\* when both masks found were 0x00, nor after the first restore write when
\* the secondary's mask was 0x00.
C14_PartialDiffersUntilLastHandshakeWrite ==
    \A c \in Contexts :
        call[c] = "initialize"
            => /\ pc[c] \in 60..79 => \E id \in ChipIds : chips[id].icw # 0
               /\ pc[c] \in {80, 83, 84}
                    => \A id \in ChipIds :
                          Unmasked(Config(chips[id])) = Unmasked(SequentialEnd[id])
               /\ (pc[c] \in {80, 83} /\ entry["pic_1"].mask = 0
                                      /\ entry["pic_2"].mask = 0)
                    => Configs(chips) = SequentialEnd
               /\ (pc[c] = 84 /\ entry["pic_2"].mask = 0)
                    => Configs(chips) = SequentialEnd

C14_Witness ==
    \E c \in Contexts :
        /\ call[c] = "initialize" /\ pc[c] = 84
        /\ entry["pic_1"].mask = 255 /\ entry["pic_2"].mask = 0
        /\ Configs(chips) = SequentialEnd

\* the chip a write is addressed to: "pic_1" for ports 0x20/0x21, "pic_2" for
\* ports 0xA0/0xA1, "none" for the delay port
ChipWritten(e) ==
    CASE e.port \in {32, 33} -> "pic_1"
      [] e.port \in {160, 161} -> "pic_2"
      [] OTHER -> "none"

\* C15: in the write trace of one run of initialize, the two mask-restore
\* writes included, between any two consecutive writes addressed to the same
\* chip there is at least one delay write to port 0x80, and the same chip is
\* never written twice back-to-back.
C15_DelayBetweenSameChipWrites ==
    \A c \in Contexts :
        call[c] = "initialize"
            => LET w == Writes(trace) IN
               /\ \A i \in 1..Len(w) : \A j \in 1..Len(w) :
                     (i < j /\ ChipWritten(w[i]) # "none"
                            /\ ChipWritten(w[i]) = ChipWritten(w[j]))
                         => \E k \in (i + 1)..(j - 1) : IsDelay(w[k])
               /\ \A i \in 1..(Len(w) - 1) :
                     ChipWritten(w[i]) # "none"
                         => ChipWritten(w[i + 1]) # ChipWritten(w[i])

\* a completed run: ten chip writes, the last two of them adjacent
C15_Witness ==
    \E c \in Contexts :
        /\ Done(c, "initialize")
        /\ Len(Writes(trace)) = 18
        /\ ChipWritten(Writes(trace)[17]) = "pic_1"
        /\ ChipWritten(Writes(trace)[18]) = "pic_2"
        /\ Cardinality({i \in 1..18 : ChipWritten(Writes(trace)[i]) = "pic_2"}) = 5

\* no run of initialize is under way
NoInitUnderway ==
    \A c \in Contexts : call[c] = "initialize" => pc[c] \in ReturnLines

\* C16: routing and programming agree.  After initialize the offset each chip
\* was programmed with is the base offset the routing uses for it, so every
\* vector a chip can emit (programmed offset + line 0..7) is handled and is
\* attributed to that chip and not to the other; TIMER_INTERRUPT is the
\* primary's line-0 vector; no vector is owned by both chips; no vector in
\* 0x00..0x1F is handled.
C16_RoutingMatchesProgramming ==
    (initialized /\ NoInitUnderway)
        => /\ \A id \in ChipIds :
                /\ chips[id].offset = create_pic_structs[id].offset
                /\ \A line \in 0..7 :
                      LET v == chips[id].offset + line IN
                      /\ handles_interrupt(v)
                      /\ Pic_handles_interrupt(create_pic_structs[id], v)
                      /\ \A other \in ChipIds \ {id} :
                            ~ Pic_handles_interrupt(create_pic_structs[other], v)
           /\ TIMER_INTERRUPT = chips["pic_1"].offset + 0
           /\ \A v \in U8 : ~ (Pic_handles_interrupt(pic_1, v)
                                  /\ Pic_handles_interrupt(pic_2, v))
           /\ \A v \in 0..31 : ~ handles_interrupt(v)

\* chips that came from the BIOS offsets 0x08/0x70, now programmed and routed
C16_Witness ==
    /\ initialized /\ NoInitUnderway
    /\ \E c \in Contexts :
          /\ Done(c, "initialize")
          /\ entry["pic_1"].offset = 8 /\ entry["pic_2"].offset = 112
    /\ chips["pic_1"].offset = 32 /\ chips["pic_2"].offset = 40

\* C17: for every vector v, notify_end_of_interrupt(v) issues at least one
\* port write iff handles_interrupt(v) is true; whenever it writes anything
\* its last write is the end-of-interrupt byte to the primary's command port;
\* the secondary is written only for vectors of its own range.
C17_AckIffHandled ==
    \A c \in Contexts :
        Done(c, "notify_end_of_interrupt")
            => /\ Len(Writes(trace)) >= 1 <=> handles_interrupt(arg[c])
               /\ Len(trace) >= 1 => trace[Len(trace)] = W(32, 32)
               /\ (\E i \in 1..Len(trace) : trace[i].port \in {160, 161})
                     <=> arg[c] \in 40..47

C17_Witness ==
    \E c \in Contexts :
        /\ Done(c, "notify_end_of_interrupt")
        /\ arg[c] = 47 /\ handles_interrupt(arg[c])
        /\ Len(trace) = 2 /\ trace[2] = W(32, 32)

\* a step that belongs to a call of notify_end_of_interrupt by context c
NotifyStep(c) ==
    call[c] = "notify_end_of_interrupt" \/ call'[c] = "notify_end_of_interrupt"

\* C18: after any sequence of notify_end_of_interrupt calls that follows a
\* completed initialize both chips still have the offsets, cascade bytes,
\* mode and masks initialize left: a call writes only the byte 0x20 and only
\* to the command ports 0x20 and 0xA0, never to a data port or to port 0x80,
\* and never puts a chip back into the handshake.
C18_AckKeepsConfiguration ==
    /\ [](\A c \in Contexts :
            call[c] = "notify_end_of_interrupt"
                => /\ chips = entry
                   /\ \A i \in 1..Len(trace) :
                         trace[i] \in {W(32, 32), W(160, 32)})
    /\ []((initialized /\ NoInitUnderway)
            => Configs(chips)
                 = OperatingConfig(chips["pic_1"].mask, chips["pic_2"].mask))
    /\ [][\A c \in Contexts : NotifyStep(c) => chips' = chips]_vars

\* a second acknowledgment in a row after initialize, for a secondary vector
C18_Witness ==
    \E c \in Contexts :
        /\ Done(c, "notify_end_of_interrupt")
        /\ initialized /\ ~ just_initialized
        /\ arg[c] = 44 /\ Len(trace) = 2
        /\ Configs(chips) = OperatingConfig(255, 254)

\* the range check of Pic::handles_interrupt in unbounded integers
OwnsUnbounded(self, v) == self.offset <= v /\ v < self.offset + 8

\* C19: for both controllers built by create_pic_structs the upper bound
\* offset + 8 does not exceed 255 (0x20 + 8 = 0x28, 0x28 + 8 = 0x30), so the
\* 8-bit range check never wraps and agrees with unbounded-integer
\* arithmetic for every 8-bit vector, 0xFF included.
C19_RangeCheckNeverWraps ==
    /\ \A id \in ChipIds :
          /\ create_pic_structs[id].offset + 8 <= 255
          /\ U8Add(create_pic_structs[id].offset, 8)
                = create_pic_structs[id].offset + 8
    /\ \A c \in Contexts :
          Done(c, "handles_interrupt")
              => /\ \A id \in ChipIds :
                      Pic_handles_interrupt(create_pic_structs[id], arg[c])
                          <=> OwnsUnbounded(create_pic_structs[id], arg[c])
                 /\ ret[c] <=> \E id \in ChipIds :
                                  OwnsUnbounded(create_pic_structs[id], arg[c])

C19_Witness ==
    \E c \in Contexts :
        Done(c, "handles_interrupt") /\ arg[c] = 255 /\ ret[c] = FALSE

====
